---- MODULE Spec2Model ----
(***************************************************************************)
(* Model of vscode/src/completions/providers/google.ts:                    *)
(*   - GoogleGeminiProvider.createPrompt / emptyPromptLength (prompt       *)
(*     packing under a character budget),                                  *)
(*   - GoogleGeminiProvider.generateCompletions (fan-out of K branches),   *)
(*   - BfgRetriever (engine process startup, revision-keyed indexing,      *)
(*     context retrieval, shutdown).                                       *)
(* Each component has its own specification over its own variables:       *)
(* SpecPrompt, SpecGen, SpecIndex (startup, indexing and the repository    *)
(* and workspace-folder events), SpecRevisions (startup, indexing and the  *)
(* repositories the git extension reports) and SpecBfg (startup, initial   *)
(* indexing, retrieve, dispose); the other components' variables stay at   *)
(* their initial values.                                                   *)
(***************************************************************************)
EXTENDS Integers, Sequences, FiniteSets, Bags, TLC

VARIABLES
    \* ---- GoogleGeminiProvider.createPrompt ----
    promptChars,      \* this.promptChars: the total character budget
    options,          \* GenerateCompletionsOptions: docContext prefix/suffix, document path
    snippets,         \* the ranked AutocompleteContextSnippet[] handed to createPrompt
    prompt,           \* result of getRequestParams/createPrompt, or NoPrompt before the call
    \* ---- GoogleGeminiProvider.generateCompletions ----
    numberOfCompletionsToGenerate,  \* K, the fan-out
    clock,            \* time since generateCompletions was called, in ticks
    branches,         \* per branch: the state of its async function and of its sequence
    generated,        \* the promise generateCompletions returns: pending, returned, threw
    merged,           \* the rounds the merged stream has emitted
    mergedDone,       \* the merged stream has terminated
    \* ---- BfgRetriever ----
    awaitIndexing,    \* setting cody.experimental.cody-engine.await-indexing
    vscodeGitAPI,     \* whether the git extension's API is available
    inferParent,      \* setting cody.experimental.cody-engine.index-parent-git-folder
    repositories,     \* vscodeGitAPI.repositories at startup
    workspaceFolders, \* vscode.workspace.workspaceFolders
    loading,          \* doLoadBFG: the await it is at (spawnBfg, initialize), or returned, threw
    loadedBFG,        \* the promise this.loadedBFG: pending, resolved, rejected
    spawnCalls,       \* number of spawnBfg calls so far
    startupFailed,    \* spawnBfg or the initialize handshake has failed
    didFailLoading,   \* this.didFailLoading
    alive,            \* bfg.isAlive()
    indexedRepositoryRevisions, \* the Map: URI -> revision, Undefined where it has no entry
    subscribed,       \* the two event handlers of lines 266-274 are registered
    bfgIndexingPromise, \* the constructor's indexWorkspace() task
    handlers,         \* bag of the running event-handler tasks
    lastObserved,     \* per repository URI, the commit of the last didChangeSimpleRepository call
    resent,           \* a gitRevision/didChange request was sent for a re-observed pair
    indexingErrors,   \* repository URIs whose gitRevision/didChange request failed (logged at line 356)
    keptAfterError,   \* repository URIs observed again, revision unchanged, after such a failure
    retrievals,       \* bag of the retrieve calls, running and done
    requests,         \* bag of the bfg.request calls made
    shutdowns,        \* dispose calls waiting for loadedBFG
    calls             \* how many events, retrieve and dispose calls have happened

promptVars == <<promptChars, options, snippets, prompt>>

genVars == <<numberOfCompletionsToGenerate, clock, branches, generated, merged, mergedDone>>

cfgVars == <<awaitIndexing, vscodeGitAPI, inferParent, repositories>>

loadVars == <<loading, loadedBFG, spawnCalls, startupFailed, didFailLoading, alive>>

indexVars == <<indexedRepositoryRevisions, subscribed, bfgIndexingPromise, handlers,
               lastObserved, resent, indexingErrors, keptAfterError>>

bfgVars == <<cfgVars, loadVars, indexVars, workspaceFolders, retrievals, requests, shutdowns, calls>>

vars == <<promptVars, genVars, bfgVars>>

-----------------------------------------------------------------------------
(* Bounds of the model *)

MaxSnippets == 2        \* length of the ranked snippet list
MaxContentLen == 2      \* non-blank characters of a snippet's content
MinPromptChars == 730   \* smallest budget tried
MaxSlack == 65          \* budgets tried are MinPromptChars .. MinPromptChars + MaxSlack
MaxBranches == 3        \* largest numberOfCompletionsToGenerate
MaxItems == 2           \* partial results one backend stream yields at most
TimeoutMs == 2          \* requestParams.timeoutMs, in ticks
MaxClock == 4           \* the clock stops here
MaxEvents == 2          \* repository and workspace-folder events in a session
MaxRetrieves == 2       \* retrieve calls in a session
MaxDisposes == 1        \* dispose calls in a session

-----------------------------------------------------------------------------
(* Strings *)

RECURSIVE Rep(_, _)
Rep(s, n) == IF n = 0 THEN "" ELSE s \o Rep(s, n - 1)

Whitespace == {" ", "\n", "\t"}

\* String.prototype.trimEnd
RECURSIVE trimEnd(_)
trimEnd(s) ==
    IF Len(s) > 0 /\ SubSeq(s, Len(s), Len(s)) \in Whitespace
    THEN trimEnd(SubSeq(s, 1, Len(s) - 1))
    ELSE s

-----------------------------------------------------------------------------
(* GoogleGeminiProvider: prompt construction *)

MARKERS == [Prefix |-> "<|prefix|>", Suffix |-> "<|suffix|>", Response |-> "<|fim|>"]

\* utils.messagesToText: the messages flattened to one text, each turn behind
\* its speaker label.
RECURSIVE messagesToText(_)
messagesToText(messages) ==
    IF messages = <<>> THEN ""
    ELSE LET m == Head(messages)
         IN (IF m.speaker = "human" THEN "\n\nHuman:" ELSE "\n\nAssistant:")
                \o " " \o m.text \o messagesToText(Tail(messages))

\* createContext(type, name, content)
createContext(type, name, content) ==
    "\n-TYPE: " \o type \o "\n-NAME: " \o name \o "\n-CONTENT: " \o trimEnd(content) \o "\n---\n"

\* The block createPrompt formats for one snippet (lines 57-63).
contextPrompt(snippet) ==
    createContext(
        IF snippet.symbol # "" THEN "symbol" ELSE "file",
        IF snippet.symbol # "" THEN snippet.symbol ELSE snippet.uri,
        snippet.content)

\* Lines 79-99: the two message turns around the packed snippets.
promptMessages(opts, groupedSnippets) ==
    LET fimPrompt == MARKERS.Prefix \o opts.prefix \o MARKERS.Response \o opts.suffix \o MARKERS.Suffix
        humanText ==
            "You are a code completion AI, designed to autofill code enclosed in special markers based on its surrounding context.\n"
            \o groupedSnippets
            \o "\n\nCode from " \o opts.relativeFilePath \o " file:\n"
            \o fimPrompt
            \o "\n\nYour mission is to generate completed code that I can replace the "
            \o MARKERS.Response
            \o " markers with, ensuring a seamless and syntactically correct result.\n\n"
            \o "Do not repeat code from before and after " \o MARKERS.Response \o " in your output.\n"
            \o "Maintain consistency with the indentation, spacing, and coding style used in the code.\n"
            \o "Leave the output markers empty if no code is required to bridge the gap.\n"
            \o "Your response should contains only the code required to connect the gap, and the code must be enclosed between "
            \o MARKERS.Response \o " WITHOUT backticks"
    IN << [speaker |-> "human", text |-> humanText],
          [speaker |-> "assistant", text |-> MARKERS.Response] >>

\* emptyPromptLength(options): createPrompt(options, []) packs nothing.
emptyPromptLength(opts) == Len(messagesToText(promptMessages(opts, ""))) - 10

\* The test of lines 65-68 that ends the packing loop.
stopsPacking(block, budget, opts) ==
    \/ Len(block) + 1 > budget - emptyPromptLength(opts)
    \/ Len(block) = 0

\* The packing loop with `continue` in place of `break`: a snippet that fails
\* the test is skipped and the loop goes on.
RECURSIVE packedBlocksSkipping(_, _, _, _)
packedBlocksSkipping(snips, i, budget, opts) ==
    IF i > Len(snips) THEN <<>>
    ELSE LET block == contextPrompt(snips[i])
         IN IF stopsPacking(block, budget, opts)
            THEN packedBlocksSkipping(snips, i + 1, budget, opts)
            ELSE <<block>> \o packedBlocksSkipping(snips, i + 1, budget, opts)

\* The loop of lines 56-73 from snippet i on: the blocks appended to
\* groupedSnippets, in order.
RECURSIVE packedBlocks(_, _, _, _)
packedBlocks(snips, i, budget, opts) ==
    IF i > Len(snips) THEN <<>>
    ELSE LET block == contextPrompt(snips[i])
         IN IF stopsPacking(block, budget, opts)
            THEN <<>>
            ELSE <<block>> \o packedBlocks(snips, i + 1, budget, opts)

RECURSIVE concatAll(_)
concatAll(blocks) == IF blocks = <<>> THEN "" ELSE Head(blocks) \o concatAll(Tail(blocks))

\* createPrompt(options, snippets). `blocks` records what the loop packed.
createPrompt(opts, snips, budget) ==
    LET blocks == packedBlocks(snips, 1, budget, opts)
        grouped == concatAll(blocks)
        groupedSnippets == IF Len(grouped) > 0 THEN "Context:\n" \o grouped \o "\n" ELSE grouped
    IN [messages |-> promptMessages(opts, groupedSnippets), blocks |-> blocks]

NoPrompt == [messages |-> <<>>, blocks |-> <<>>]

-----------------------------------------------------------------------------
(* GoogleGeminiProvider.generateCompletions *)

\* A branch is the async function of lines 128-143 and, once it has returned,
\* the sequence it returned:
\*   calling   awaiting client.complete (line 132)
\*   rejected  client.complete failed, the async function threw
\*   ready     the sequence exists and is not being advanced
\*   pulled    the merge has asked it for its next result
\*   settled   it has answered the merge's current round with `val`
\*   exhausted its sequence has ended
\* timer is the tick at which its timeout started (-1: not started), yielded
\* the number of partial results it has delivered.
NewBranch == [st |-> "calling", val |-> "none", more |-> TRUE, timer |-> -1, yielded |-> 0]

Branches == 1..numberOfCompletionsToGenerate

GenIdle ==
    /\ numberOfCompletionsToGenerate = 0
    /\ clock = 0
    /\ branches = <<>>
    /\ generated = "pending"
    /\ merged = <<>>
    /\ mergedDone = FALSE

-----------------------------------------------------------------------------
(* BfgRetriever: values *)

\* JavaScript's undefined, as a commit that is absent and as the result of
\* Map.get for a key the map does not hold.
Undefined == "<undefined>"

\* String.prototype.startsWith
startsWith(s, t) == Len(t) <= Len(s) /\ SubSeq(s, 1, Len(t)) = t

Commits == {"c1", "c2"}

\* Root URIs of git repositories, and workspace folder URIs.
RepositoryUris == {"/repo", "/w"}
FolderUris == {"/repo/sub", "/w"}
Uris == RepositoryUris \cup FolderUris

\* What the git extension reports: repository.rootUri and
\* repository.state.HEAD.commit (absent for a HEAD without a commit).
GitRepositories == [rootUri : {"/repo"}, commit : Commits \cup {Undefined}]

\* vscodeGitAPI.repositories at startup.
RepositoryLists ==
    { <<>>, <<[rootUri |-> "/repo", commit |-> "c1"]>>,
      <<[rootUri |-> "/repo", commit |-> Undefined]>> }

\* vscode.workspace.workspaceFolders.
FolderLists == { <<>>, <<"/repo/sub">>, <<"/w">>, <<"/repo/sub", "/w">> }

NoRepository == [uri |-> "", commit |-> Undefined]

\* simple-git.inferGitRepository(folder): nothing, or the repository whose
\* root is the folder or one of its parents, with its commit, if it has one.
InferResults(folder) ==
    {NoRepository} \cup
    { [uri |-> u, commit |-> c] :
        u \in {r \in RepositoryUris : startsWith(folder, r)},
        c \in {"c1", Undefined} }

\* One bfg.request call.
Request(method, uri, identifiers) ==
    [method |-> method, uri |-> uri, identifiers |-> identifiers]

Sent(method) == { r \in BagToSet(requests) : r.method = method }

NumSent(method) ==
    LET S == Sent(method)
        RECURSIVE Sum(_)
        Sum(T) == IF T = {} THEN 0
                  ELSE LET r == CHOOSE x \in T : TRUE
                       IN CopiesIn(r, requests) + Sum(T \ {r})
    IN Sum(S)

Never == "<never>"

NoEntry == [type |-> "none", uri |-> "", commit |-> Undefined, reobserved |-> FALSE]

NewTask(kind, pc, todo) ==
    [kind |-> kind, pc |-> pc, i |-> 1, todo |-> todo, entry |-> NoEntry, ret |-> pc]

BfgIdle ==
    /\ awaitIndexing = FALSE
    /\ vscodeGitAPI = FALSE
    /\ inferParent = FALSE
    /\ repositories = <<>>
    /\ workspaceFolders = <<>>
    /\ loading = "spawnBfg"
    /\ loadedBFG = "pending"
    /\ spawnCalls = 1
    /\ startupFailed = FALSE
    /\ didFailLoading = FALSE
    /\ alive = FALSE
    /\ indexedRepositoryRevisions = [u \in Uris |-> Undefined]
    /\ subscribed = FALSE
    /\ bfgIndexingPromise = NewTask("indexWorkspace", "indexGitRepositories", <<>>)
    /\ handlers = EmptyBag
    /\ lastObserved = [u \in Uris |-> Never]
    /\ resent = FALSE
    /\ indexingErrors = {}
    /\ keptAfterError = {}
    /\ retrievals = EmptyBag
    /\ requests = EmptyBag
    /\ shutdowns = 0
    /\ calls = [events |-> 0, retrieves |-> 0, disposes |-> 0]

-----------------------------------------------------------------------------
(* BfgRetriever: starting the engine (constructor, loadBFG, doLoadBFG) *)

\* doLoadBFG that starts over when spawnBfg throws.
doLoadBFGRetries(at, ok) ==
    IF at = "spawnBfg" THEN (IF ok THEN "initialize" ELSE "spawnBfg")
    ELSE IF at = "initialize" THEN (IF ok THEN "returned" ELSE "threw")
    ELSE at

\* doLoadBFG that returns the handler although the handshake failed.
doLoadBFGIgnoresHandshake(at, ok) ==
    IF at = "spawnBfg" THEN (IF ok THEN "initialize" ELSE "threw")
    ELSE IF at = "initialize" THEN "returned"
    ELSE at

\* doLoadBFG that returns the handler without the handshake.
doLoadBFGSkipsHandshake(at, ok) ==
    IF at = "spawnBfg" THEN (IF ok THEN "returned" ELSE "threw")
    ELSE at

\* doLoadBFG (lines 486-490) from its await `at`, which ended well (ok) or
\* threw: the next await, or how the function ends.
doLoadBFG(at, ok) ==
    IF at = "spawnBfg" THEN (IF ok THEN "initialize" ELSE "threw")
    ELSE IF at = "initialize" THEN (IF ok THEN "returned" ELSE "threw")
    ELSE at

\* resolve / reject of the promise loadBFG creates (lines 474-483): a settled
\* promise stays as it is.
settle(promise, to) == IF promise = "pending" THEN to ELSE promise

LoadBFGStep(ok) ==
    LET next == doLoadBFG(loading, ok)
    IN /\ loading' = next
       /\ spawnCalls' = IF next = "spawnBfg" THEN spawnCalls + 1 ELSE spawnCalls
       /\ requests' = IF next = "initialize"
                      THEN requests (+) SetToBag({Request("bfg/initialize", "", <<>>)})
                      ELSE requests
       /\ alive' = IF loading = "spawnBfg" THEN ok ELSE alive
       /\ loadedBFG' = IF next = "returned" THEN settle(loadedBFG, "resolved")
                       ELSE IF next = "threw" THEN settle(loadedBFG, "rejected")
                       ELSE loadedBFG
       /\ startupFailed' = (startupFailed \/ ~ok)
       /\ UNCHANGED <<promptVars, genVars, didFailLoading, cfgVars, workspaceFolders, indexVars, retrievals,
                      shutdowns, calls>>

\* spawnBfg returns the message handler of the running process.
SpawnBfgSucceeds == loading = "spawnBfg" /\ LoadBFGStep(TRUE)

\* spawnBfg throws.
SpawnBfgFails == loading = "spawnBfg" /\ LoadBFGStep(FALSE)

\* The engine acknowledges bfg/initialize.
InitializeSucceeds == loading = "initialize" /\ LoadBFGStep(TRUE)

\* bfg/initialize fails.
InitializeFails == loading = "initialize" /\ LoadBFGStep(FALSE)

\* The engine process exits. Its 'exit' handler calls the reject that
\* loadBFG handed to spawnBfg (lines 472-474, 487).
ProcessExits ==
    /\ alive
    /\ alive' = FALSE
    /\ loadedBFG' = settle(loadedBFG, "rejected")
    /\ startupFailed' = (startupFailed \/ loadedBFG = "pending")
    /\ UNCHANGED <<promptVars, genVars, loading, spawnCalls, didFailLoading, requests, cfgVars, workspaceFolders,
                   indexVars, retrievals, shutdowns, calls>>

\* The rejection handler the constructor registers (lines 214-221).
LoadFailedHandler ==
    /\ loadedBFG = "rejected"
    /\ ~didFailLoading
    /\ didFailLoading' = TRUE
    /\ UNCHANGED <<promptVars, genVars, loading, loadedBFG, spawnCalls, startupFailed, alive, requests, cfgVars,
                   workspaceFolders, indexVars, retrievals, shutdowns, calls>>

\* `await this.loadedBFG` resumes with the handler, or throws. The
\* constructor's rejection handler is the promise's first reaction, so it has
\* run before any other awaiter resumes.
LoadedBFGResolved == loadedBFG = "resolved"
LoadedBFGRejected == loadedBFG = "rejected" /\ didFailLoading

-----------------------------------------------------------------------------
(* BfgRetriever: dispose *)

\* dispose() (lines 459-467).
Dispose ==
    /\ calls.disposes < MaxDisposes
    /\ calls' = [calls EXCEPT !.disposes = @ + 1]
    /\ shutdowns' = IF didFailLoading THEN shutdowns ELSE shutdowns + 1
    /\ UNCHANGED <<promptVars, genVars, loadVars, requests, cfgVars, workspaceFolders, indexVars, retrievals>>

\* loadedBFG.then(bfg => bfg.request('bfg/shutdown', null), ...).
DisposeLoaded ==
    /\ shutdowns > 0
    /\ LoadedBFGResolved
    /\ shutdowns' = shutdowns - 1
    /\ requests' = requests (+) SetToBag({Request("bfg/shutdown", "", <<>>)})
    /\ UNCHANGED <<promptVars, genVars, loadVars, cfgVars, workspaceFolders, indexVars, retrievals, calls>>

\* dispose whose rejection callback also tries the shutdown request.
DisposeLoadRejectedSends ==
    /\ shutdowns > 0
    /\ LoadedBFGRejected
    /\ shutdowns' = shutdowns - 1
    /\ requests' = requests (+) SetToBag({Request("bfg/shutdown", "", <<>>)})
    /\ UNCHANGED <<promptVars, genVars, loadVars, cfgVars, workspaceFolders, indexVars, retrievals, calls>>

\* loadedBFG.then(..., () => {}).
DisposeLoadRejected ==
    /\ shutdowns > 0
    /\ LoadedBFGRejected
    /\ shutdowns' = shutdowns - 1
    /\ UNCHANGED <<promptVars, genVars, loadVars, requests, cfgVars, workspaceFolders, indexVars, retrievals, calls>>

-----------------------------------------------------------------------------
(* BfgRetriever: indexing *)

\* An indexing task is one run of indexWorkspace (the constructor's, held in
\* bfgIndexingPromise) or of an event handler. pc is the await it is
\* suspended at or the loop it is about to continue:
\*   indexGitRepositories  the loop of lines 263-265, at repository i
\*   indexInferred         the loop of lines 299-307, over the folders todo
\*   inferring             awaiting inferGitRepository(Head(todo)) (line 303)
\*   indexRemaining        the loop of lines 247-252, over the folders todo
\*   loading               indexEntry awaits loadedBFG (line 334)
\*   requesting            indexEntry awaits its request (lines 339, 344)
\*   done, failed          the task's promise is fulfilled, rejected
\* entry is the parameter of the indexEntry call in progress, ret the pc the
\* task continues at when that call returns.
IndexingTasks == {bfgIndexingPromise} \cup BagToSet(handlers)

\* Task t becomes t2. A handler that is done is forgotten.
SetTask(t, t2) ==
    IF t.kind = "indexWorkspace"
    THEN /\ bfgIndexingPromise' = t2
         /\ UNCHANGED handlers
    ELSE /\ handlers' = (handlers (-) SetToBag({t}))
                            (+) (IF t2.pc = "done" THEN EmptyBag ELSE SetToBag({t2}))
         /\ UNCHANGED bfgIndexingPromise

\* isWorkspaceIndexed that looks the folder up as a key (equality).
isWorkspaceIndexedByKey(folder, revisions) ==
    revisions[folder] # Undefined

\* isWorkspaceIndexed(folder) (lines 230-239).
isWorkspaceIndexed(folder, revisions) ==
    \E key \in DOMAIN revisions :
        revisions[key] # Undefined /\ startsWith(folder, key)

\* The test of line 319.
revisionChanged(repository, revisions) ==
    repository.commit # revisions[repository.uri]

\* A map update that keeps a revision already recorded (first write wins).
recordRevisionKeepsFirst(repository, revisions) ==
    IF revisions[repository.uri] # Undefined THEN revisions
    ELSE [revisions EXCEPT ![repository.uri] =
            IF repository.commit = Undefined THEN "" ELSE repository.commit]

\* Line 320: repository.commit ?? ''.
recordRevision(repository, revisions) ==
    [revisions EXCEPT ![repository.uri] =
        IF repository.commit = Undefined THEN "" ELSE repository.commit]

\* The call of indexEntry(entry) from a task that then continues as `after`.
IndexEntry(after, entry) ==
    [after EXCEPT !.pc = "loading", !.ret = after.pc, !.entry = entry]

\* didChangeSimpleRepository(repository) (lines 318-324), called by task t,
\* which continues as `after` when the call returns.
DidChangeSimpleRepository(t, after, repository) ==
    LET changed == revisionChanged(repository, indexedRepositoryRevisions)
        entry == [type |-> "repository", uri |-> repository.uri,
                  commit |-> repository.commit,
                  reobserved |-> lastObserved[repository.uri] = repository.commit]
    IN /\ indexedRepositoryRevisions' =
            IF changed THEN recordRevision(repository, indexedRepositoryRevisions)
            ELSE indexedRepositoryRevisions
       /\ lastObserved' = [lastObserved EXCEPT ![repository.uri] = repository.commit]
       /\ keptAfterError' =
            IF ~changed /\ repository.uri \in indexingErrors
            THEN keptAfterError \cup {repository.uri}
            ELSE keptAfterError
       /\ SetTask(t, IF changed THEN IndexEntry(after, entry) ELSE after)

\* indexGitRepositories without the git extension (lines 257-259), then
\* indexRemainingWorkspaceFolders.
GitApiMissing(t) ==
    /\ t.pc = "indexGitRepositories"
    /\ ~vscodeGitAPI
    /\ SetTask(t, [t EXCEPT !.pc = "indexRemaining", !.todo = workspaceFolders])
    /\ UNCHANGED <<indexedRepositoryRevisions, subscribed, lastObserved, resent, indexingErrors, keptAfterError>>
    /\ UNCHANGED <<promptVars, genVars, loadVars, requests, cfgVars, workspaceFolders, retrievals, shutdowns, calls>>

\* One turn of the loop of lines 263-265: didChangeGitExtensionRepository
\* (lines 310-316).
GitRepositoryObserved(t) ==
    /\ t.pc = "indexGitRepositories"
    /\ vscodeGitAPI
    /\ t.i <= Len(repositories)
    /\ LET repository == repositories[t.i]
           after == [t EXCEPT !.i = @ + 1]
       IN IF repository.commit = Undefined
          THEN /\ SetTask(t, after)
               /\ UNCHANGED <<indexedRepositoryRevisions, lastObserved, keptAfterError>>
          ELSE DidChangeSimpleRepository(t, after,
                    [uri |-> repository.rootUri, commit |-> repository.commit])
    /\ UNCHANGED <<subscribed, resent, indexingErrors>>
    /\ UNCHANGED <<promptVars, genVars, loadVars, requests, cfgVars, workspaceFolders, retrievals, shutdowns, calls>>

\* Lines 266-277: the loop is over, the two event handlers are registered and
\* indexInferredGitRepositories is called.
GitRepositoriesDone(t) ==
    /\ t.pc = "indexGitRepositories"
    /\ vscodeGitAPI
    /\ t.i > Len(repositories)
    /\ subscribed' = TRUE
    /\ SetTask(t, [t EXCEPT !.pc = IF inferParent THEN "indexInferred" ELSE "indexRemaining",
                            !.todo = workspaceFolders])
    /\ UNCHANGED <<indexedRepositoryRevisions, lastObserved, resent, indexingErrors, keptAfterError>>
    /\ UNCHANGED <<promptVars, genVars, loadVars, requests, cfgVars, workspaceFolders, retrievals, shutdowns, calls>>

\* Lines 300-302: a folder that is a key of the map is skipped.
InferFolderSkipped(t) ==
    /\ t.pc = "indexInferred"
    /\ t.todo # <<>>
    /\ indexedRepositoryRevisions[Head(t.todo)] # Undefined
    /\ SetTask(t, [t EXCEPT !.todo = Tail(@)])
    /\ UNCHANGED <<indexedRepositoryRevisions, subscribed, lastObserved, resent, indexingErrors, keptAfterError>>
    /\ UNCHANGED <<promptVars, genVars, loadVars, requests, cfgVars, workspaceFolders, retrievals, shutdowns, calls>>

\* Line 303: inferGitRepository is called and awaited.
InferFolderStarts(t) ==
    /\ t.pc = "indexInferred"
    /\ t.todo # <<>>
    /\ indexedRepositoryRevisions[Head(t.todo)] = Undefined
    /\ SetTask(t, [t EXCEPT !.pc = "inferring"])
    /\ UNCHANGED <<indexedRepositoryRevisions, subscribed, lastObserved, resent, indexingErrors, keptAfterError>>
    /\ UNCHANGED <<promptVars, genVars, loadVars, requests, cfgVars, workspaceFolders, retrievals, shutdowns, calls>>

\* Lines 303-306: inferGitRepository returns.
InferGitRepositoryReturns(t, repo) ==
    /\ t.pc = "inferring"
    /\ repo \in InferResults(Head(t.todo))
    /\ LET after == [t EXCEPT !.pc = "indexInferred", !.todo = Tail(@)]
       IN IF repo = NoRepository
          THEN /\ SetTask(t, after)
               /\ UNCHANGED <<indexedRepositoryRevisions, lastObserved, keptAfterError>>
          ELSE DidChangeSimpleRepository(t, after, repo)
    /\ UNCHANGED <<subscribed, resent, indexingErrors>>
    /\ UNCHANGED <<promptVars, genVars, loadVars, requests, cfgVars, workspaceFolders, retrievals, shutdowns, calls>>

\* indexInferredGitRepositories returns; indexWorkspace goes on with
\* indexRemainingWorkspaceFolders (line 228).
InferFoldersDone(t) ==
    /\ t.pc = "indexInferred"
    /\ t.todo = <<>>
    /\ SetTask(t, IF t.kind = "indexWorkspace"
                  THEN [t EXCEPT !.pc = "indexRemaining", !.todo = workspaceFolders]
                  ELSE [t EXCEPT !.pc = "done"])
    /\ UNCHANGED <<indexedRepositoryRevisions, subscribed, lastObserved, resent, indexingErrors, keptAfterError>>
    /\ UNCHANGED <<promptVars, genVars, loadVars, requests, cfgVars, workspaceFolders, retrievals, shutdowns, calls>>

\* One turn of the loop of lines 247-252.
RemainingFolder(t) ==
    /\ t.pc = "indexRemaining"
    /\ t.todo # <<>>
    /\ LET after == [t EXCEPT !.todo = Tail(@)]
       IN SetTask(t, IF isWorkspaceIndexed(Head(t.todo), indexedRepositoryRevisions)
                     THEN after
                     ELSE IndexEntry(after, [type |-> "workspace", uri |-> Head(t.todo),
                                             commit |-> Undefined, reobserved |-> FALSE]))
    /\ UNCHANGED <<indexedRepositoryRevisions, subscribed, lastObserved, resent, indexingErrors, keptAfterError>>
    /\ UNCHANGED <<promptVars, genVars, loadVars, requests, cfgVars, workspaceFolders, retrievals, shutdowns, calls>>

\* indexRemainingWorkspaceFolders and with it indexWorkspace return.
RemainingDone(t) ==
    /\ t.pc = "indexRemaining"
    /\ t.todo = <<>>
    /\ SetTask(t, [t EXCEPT !.pc = "done"])
    /\ UNCHANGED <<indexedRepositoryRevisions, subscribed, lastObserved, resent, indexingErrors, keptAfterError>>
    /\ UNCHANGED <<promptVars, genVars, loadVars, requests, cfgVars, workspaceFolders, retrievals, shutdowns, calls>>

\* The request indexEntry sends for its parameter (lines 338-345).
indexEntryRequest(entry) ==
    Request(IF entry.type = "repository" THEN "bfg/gitRevision/didChange"
            ELSE "bfg/workspace/didChange",
            entry.uri, <<>>)

\* indexEntry: loadedBFG is fulfilled and the request is sent (lines 334-345).
IndexEntryLoaded(t) ==
    /\ t.pc = "loading"
    /\ LoadedBFGResolved
    /\ requests' = requests (+) SetToBag({indexEntryRequest(t.entry)})
    /\ resent' = (resent \/ t.entry.reobserved)
    /\ SetTask(t, [t EXCEPT !.pc = "requesting"])
    /\ UNCHANGED <<indexedRepositoryRevisions, subscribed, lastObserved, indexingErrors, keptAfterError>>
    /\ UNCHANGED <<promptVars, genVars, loadVars, cfgVars, workspaceFolders, retrievals, shutdowns, calls>>

\* indexEntry: `await this.loadedBFG` (line 334) throws. The await stands
\* before the try of line 337, so indexEntry and every caller awaiting it
\* reject.
IndexEntryLoadRejected(t) ==
    /\ t.pc = "loading"
    /\ LoadedBFGRejected
    /\ SetTask(t, [t EXCEPT !.pc = "failed"])
    /\ UNCHANGED <<indexedRepositoryRevisions, subscribed, lastObserved, resent, indexingErrors, keptAfterError>>
    /\ UNCHANGED <<promptVars, genVars, loadVars, requests, cfgVars, workspaceFolders, retrievals, shutdowns, calls>>

\* indexEntry after its request: the answer is logged (lines 346-354), a
\* failure is caught and logged (lines 355-357); either way it returns.
indexEntryReturns(t, ok) == [t EXCEPT !.pc = t.ret, !.entry = NoEntry]

\* indexEntry that takes the revision out of the map again when its request
\* has failed.
IndexEntryRespondedRollsBack(t, ok) ==
    /\ t.pc = "requesting"
    /\ SetTask(t, indexEntryReturns(t, ok))
    /\ indexingErrors' = IF ~ok /\ t.entry.type = "repository"
                         THEN indexingErrors \cup {t.entry.uri}
                         ELSE indexingErrors
    /\ indexedRepositoryRevisions' =
            IF ~ok /\ t.entry.type = "repository"
            THEN [indexedRepositoryRevisions EXCEPT ![t.entry.uri] = Undefined]
            ELSE indexedRepositoryRevisions
    /\ UNCHANGED <<subscribed, lastObserved, resent, keptAfterError>>
    /\ UNCHANGED <<promptVars, genVars, loadVars, requests, cfgVars, workspaceFolders, retrievals, shutdowns, calls>>

IndexEntryResponded(t, ok) ==
    /\ t.pc = "requesting"
    /\ SetTask(t, indexEntryReturns(t, ok))
    /\ indexingErrors' = IF ~ok /\ t.entry.type = "repository"
                         THEN indexingErrors \cup {t.entry.uri}
                         ELSE indexingErrors
    /\ UNCHANGED <<indexedRepositoryRevisions, subscribed, lastObserved, resent, keptAfterError>>
    /\ UNCHANGED <<promptVars, genVars, loadVars, requests, cfgVars, workspaceFolders, retrievals, shutdowns, calls>>

\* vscodeGitAPI.onDidOpenRepository fires (lines 268-270).
OnDidOpenRepository(repository) ==
    /\ subscribed
    /\ calls.events < MaxEvents
    /\ calls' = [calls EXCEPT !.events = @ + 1]
    /\ LET after == NewTask("onDidOpenRepository", "done", <<>>)
       IN IF repository.commit = Undefined
          THEN UNCHANGED <<indexedRepositoryRevisions, lastObserved, keptAfterError,
                           bfgIndexingPromise, handlers>>
          ELSE DidChangeSimpleRepository(after, after,
                    [uri |-> repository.rootUri, commit |-> repository.commit])
    /\ UNCHANGED <<subscribed, resent, indexingErrors>>
    /\ UNCHANGED <<promptVars, genVars, loadVars, requests, cfgVars, workspaceFolders, retrievals, shutdowns>>

\* The workspace folders change; vscode.workspace.onDidChangeWorkspaceFolders
\* fires (line 273) and calls indexInferredGitRepositories (lines 295-298).
\* A change before the handler is registered has the effect of another
\* initial list of folders, a change without the git extension none.
OnDidChangeWorkspaceFolders(folders) ==
    /\ subscribed
    /\ calls.events < MaxEvents
    /\ folders # workspaceFolders
    /\ calls' = [calls EXCEPT !.events = @ + 1]
    /\ workspaceFolders' = folders
    /\ handlers' = IF inferParent
                   THEN handlers (+) SetToBag({NewTask("onDidChangeWorkspaceFolders",
                                                       "indexInferred", folders)})
                   ELSE handlers
    /\ UNCHANGED <<indexedRepositoryRevisions, subscribed, bfgIndexingPromise, lastObserved, resent, indexingErrors, keptAfterError>>
    /\ UNCHANGED <<promptVars, genVars, loadVars, requests, cfgVars, retrievals, shutdowns>>

-----------------------------------------------------------------------------
(* BfgRetriever: retrieve *)

\* isSupportedForLanguageId(languageId) (lines 442-457).
isSupportedForLanguageId(languageId) ==
    languageId \in {"typescript", "typescriptreact", "javascript", "javascriptreact",
                    "java", "go", "dart", "python", "zig"}

\* The letters identifiers are made of.
IdentifierChars ==
    {"a", "b", "c", "d", "e", "f", "g", "h", "i", "j", "k", "l", "m", "n", "o", "p", "q",
     "r", "s", "t", "u", "v", "w", "x", "y", "z", "_"}

\* The identifiers of a text, in order: its maximal runs of identifier
\* characters.
RECURSIVE wordsOf(_, _, _)
wordsOf(text, i, word) ==
    IF i > Len(text) THEN (IF word = "" THEN <<>> ELSE <<word>>)
    ELSE LET c == SubSeq(text, i, i)
         IN IF c \in IdentifierChars THEN wordsOf(text, i + 1, word \o c)
            ELSE (IF word = "" THEN <<>> ELSE <<word>>) \o wordsOf(text, i + 1, "")

lastN(n, s) == IF Len(s) <= n THEN s ELSE SubSeq(s, Len(s) - n + 1, Len(s))

\* graph/identifiers.getLastNGraphContextIdentifiersFromString and
\* ...FromDocument: the last n identifiers of the text, each a new object that
\* carries its symbolName. ref stands for the object's identity.
getLastNGraphContextIdentifiers(n, source, text) ==
    LET names == lastN(n, wordsOf(text, 1, ""))
    IN [k \in 1..Len(names) |-> [symbolName |-> names[k], ref |-> <<source, k>>]]

\* Array.from(new Set(items)): a Set keeps the first of the values that are
\* the same value; two objects are the same value when they are one object.
RECURSIVE arrayFromSet(_)
arrayFromSet(items) ==
    IF items = <<>> THEN <<>>
    ELSE LET rest == arrayFromSet(SubSeq(items, 1, Len(items) - 1))
             last == items[Len(items)]
         IN IF \E k \in DOMAIN rest : rest[k] = last THEN rest ELSE Append(rest, last)

\* retrieve's lastCandidate argument: absent, or a candidate with its
\* trigger line prefix and the insert texts of its items.
NoCandidate == [defined |-> FALSE, currentLinePrefix |-> "", items |-> <<>>]

\* Lines 381-383. An absent candidate makes the second operand undefined, which
\* + turns into the text "undefined"; a candidate without items makes
\* items[0].insertText a TypeError.
lastCandidateCurrentLine(lastCandidate) ==
    IF ~lastCandidate.defined THEN [threw |-> FALSE, text |-> "" \o "undefined"]
    ELSE IF lastCandidate.items = <<>> THEN [threw |-> TRUE, text |-> ""]
    ELSE [threw |-> FALSE, text |-> lastCandidate.currentLinePrefix \o lastCandidate.items[1]]

\* Lines 386-403.
inputIdentifiers(source, documentPrefix) ==
    arrayFromSet(getLastNGraphContextIdentifiers(10, "string", source)
                    \o getLastNGraphContextIdentifiers(10, "document", documentPrefix))

\* Line 407.
symbolNames(identifiers) == [k \in DOMAIN identifiers |-> identifiers[k].symbolName]

\* What the engine may answer to bfg/contextForIdentifiers: a transport error,
\* a value that is no object, null, an object without symbols, an object with
\* symbols.
Responses ==
    { [kind |-> "error", hasSymbols |-> FALSE, symbols |-> <<>>],
      [kind |-> "string", hasSymbols |-> FALSE, symbols |-> <<>>],
      [kind |-> "null", hasSymbols |-> FALSE, symbols |-> <<>>],
      [kind |-> "object", hasSymbols |-> FALSE, symbols |-> <<>>],
      [kind |-> "object", hasSymbols |-> TRUE, symbols |-> <<"sym">>] }

\* A retrieve call: the await it is suspended at (loading: line 371,
\* indexing: line 378, requesting: line 405) or done, with what it returned
\* (result), whether it threw instead, and the answer it got.
Retrieval(pc, threw, result, response) ==
    [pc |-> pc, threw |-> threw, result |-> result, response |-> response]

Returned(result, response) == Retrieval("done", FALSE, result, response)

\* retrieveResult without the catch: reading symbols of null throws.
retrieveResultUncaught(response) ==
    IF response.kind = "error" THEN Returned(<<>>, response.kind)
    ELSE IF response.kind # "object" /\ response.kind # "null" THEN Returned(<<>>, response.kind)
    ELSE IF response.kind = "null" THEN Retrieval("done", TRUE, <<>>, response.kind)
    ELSE Returned(IF response.hasSymbols THEN response.symbols ELSE <<>>, response.kind)

\* Lines 412-439 for the answer to the request: the catch of line 436 turns
\* every error into the empty result.
retrieveResult(response) ==
    IF response.kind = "error" THEN Returned(<<>>, response.kind)
    ELSE IF response.kind # "object" /\ response.kind # "null" THEN Returned(<<>>, response.kind)
    ELSE IF response.kind = "null" THEN Returned(<<>>, response.kind)
    ELSE Returned(IF response.hasSymbols THEN response.symbols ELSE <<>>, response.kind)

SetRetrieval(t, t2) ==
    retrievals' = (retrievals (-) SetToBag({t})) (+) SetToBag({t2})

\* Lines 381-410: the identifiers are computed and the request is sent, unless
\* computing them throws, which the catch turns into the empty result.
Query(t, lastCandidate, document) ==
    LET line == lastCandidateCurrentLine(lastCandidate)
    IN IF line.threw
       THEN /\ SetRetrieval(t, Returned(<<>>, "none"))
            /\ UNCHANGED requests
       ELSE /\ SetRetrieval(t, Retrieval("requesting", FALSE, <<>>, "none"))
            /\ requests' = requests (+) SetToBag({
                    Request("bfg/contextForIdentifiers", document.uri,
                            symbolNames(inputIdentifiers(line.text, document.prefix)))})

\* retrieve is called (lines 367-371).
Retrieve ==
    /\ calls.retrieves < MaxRetrieves
    /\ calls' = [calls EXCEPT !.retrieves = @ + 1]
    /\ retrievals' = retrievals (+) SetToBag({
            IF didFailLoading THEN Returned(<<>>, "none")
            ELSE Retrieval("loading", FALSE, <<>>, "none")})
    /\ UNCHANGED <<promptVars, genVars, loadVars, requests, cfgVars, workspaceFolders, indexVars, shutdowns>>

\* retrieve that does not wait for bfgIndexingPromise whatever the setting.
RetrieveLoadedNoJoin(t, lastCandidate, document) ==
    /\ t.pc = "loading"
    /\ LoadedBFGResolved
    /\ IF ~alive
       THEN SetRetrieval(t, Returned(<<>>, "none")) /\ UNCHANGED requests
       ELSE Query(t, lastCandidate, document)
    /\ UNCHANGED <<promptVars, genVars, loadVars, cfgVars, workspaceFolders, indexVars, shutdowns, calls>>

\* `await this.loadedBFG` is over (lines 371-379). The arguments lastCandidate
\* and document are first read at line 381. Awaiting a bfgIndexingPromise that
\* is settled already lets no event in: retrieve goes on in the same turn.
RetrieveLoaded(t, lastCandidate, document) ==
    /\ t.pc = "loading"
    /\ LoadedBFGResolved
    /\ IF ~alive
       THEN SetRetrieval(t, Returned(<<>>, "none")) /\ UNCHANGED requests
       ELSE IF awaitIndexing /\ bfgIndexingPromise.pc \notin {"done", "failed"}
       THEN SetRetrieval(t, Retrieval("indexing", FALSE, <<>>, "none")) /\ UNCHANGED requests
       ELSE IF awaitIndexing /\ bfgIndexingPromise.pc = "failed"
       THEN SetRetrieval(t, Returned(<<>>, "none")) /\ UNCHANGED requests
       ELSE Query(t, lastCandidate, document)
    /\ UNCHANGED <<promptVars, genVars, loadVars, cfgVars, workspaceFolders, indexVars, shutdowns, calls>>

\* `await this.loadedBFG` throws and the catch returns the empty result.
RetrieveLoadRejected(t) ==
    /\ t.pc = "loading"
    /\ LoadedBFGRejected
    /\ SetRetrieval(t, Returned(<<>>, "none"))
    /\ UNCHANGED <<promptVars, genVars, loadVars, requests, cfgVars, workspaceFolders, indexVars, shutdowns, calls>>

\* `await this.bfgIndexingPromise` is over (line 378).
RetrieveIndexed(t, lastCandidate, document) ==
    /\ t.pc = "indexing"
    /\ bfgIndexingPromise.pc \in {"done", "failed"}
    /\ IF bfgIndexingPromise.pc = "failed"
       THEN SetRetrieval(t, Returned(<<>>, "none")) /\ UNCHANGED requests
       ELSE Query(t, lastCandidate, document)
    /\ UNCHANGED <<promptVars, genVars, loadVars, cfgVars, workspaceFolders, indexVars, shutdowns, calls>>

\* The request of line 405 is answered or fails.
RetrieveResponded(t, response) ==
    /\ t.pc = "requesting"
    /\ SetRetrieval(t, retrieveResult(response))
    /\ UNCHANGED <<promptVars, genVars, loadVars, requests, cfgVars, workspaceFolders, indexVars, shutdowns, calls>>

-----------------------------------------------------------------------------
(* Specification of createPrompt *)

\* Snippet contents: runs of up to MaxContentLen characters, and one that ends
\* in white space (which createContext trims).
Contents ==
    { Rep("x", n) : n \in 0..MaxContentLen } \cup { "x \n" }

SnippetPool ==
    [symbol : {"", "foo"}, uri : {"b.ts"}, content : Contents]

SnippetLists == UNION { [1..n -> SnippetPool] : n \in 0..MaxSnippets }

OptionsPool ==
    [prefix : {"f("}, suffix : {")"}, relativeFilePath : {"a.ts"}]

PromptIdle ==
    /\ promptChars = MinPromptChars
    /\ options = CHOOSE o \in OptionsPool : TRUE
    /\ snippets = <<>>
    /\ prompt = NoPrompt

InitPrompt ==
    /\ GenIdle
    /\ BfgIdle
    /\ promptChars \in MinPromptChars .. (MinPromptChars + MaxSlack)
    /\ options \in OptionsPool
    /\ snippets \in SnippetLists
    /\ prompt = NoPrompt

\* getRequestParams(options): builds the prompt from options.snippets.
GetRequestParams ==
    /\ prompt = NoPrompt
    /\ prompt' = createPrompt(options, snippets, promptChars)
    /\ UNCHANGED <<promptChars, options, snippets>>
    /\ UNCHANGED <<genVars, bfgVars>>

NextPrompt == GetRequestParams

SpecPrompt == InitPrompt /\ [][NextPrompt]_vars

-----------------------------------------------------------------------------
(* Specification of generateCompletions *)

\* Lines 122-144: the K async functions have been started and each awaits
\* its own client.complete call.
InitGen ==
    /\ PromptIdle
    /\ BfgIdle
    /\ numberOfCompletionsToGenerate \in 1..MaxBranches
    /\ clock = 0
    /\ branches = [b \in 1..numberOfCompletionsToGenerate |-> NewBranch]
    /\ generated = "pending"
    /\ merged = <<>>
    /\ mergedDone = FALSE

\* Line 146, Promise.all over the branch promises: rejected with the first
\* rejection, fulfilled when every branch is fulfilled.
promiseAll(bs) ==
    IF \E b \in DOMAIN bs : bs[b].st = "rejected" THEN "threw"
    ELSE IF \A b \in DOMAIN bs : bs[b].st # "calling" THEN "returned"
    ELSE "pending"

Tick ==
    /\ clock < MaxClock
    /\ clock' = clock + 1
    /\ UNCHANGED <<numberOfCompletionsToGenerate, branches, generated, merged, mergedDone>>
    /\ UNCHANGED <<promptVars, bfgVars>>

\* client.complete of branch b resolves with the backend's response generator
\* (line 132); lines 131-142 wrap it without advancing it.
CompleteResolves(b) ==
    /\ branches[b].st = "calling"
    /\ branches' = [branches EXCEPT ![b].st = "ready"]
    /\ generated' = IF generated = "pending" THEN promiseAll(branches') ELSE generated
    /\ UNCHANGED <<numberOfCompletionsToGenerate, clock, merged, mergedDone>>
    /\ UNCHANGED <<promptVars, bfgVars>>

\* client.complete of branch b rejects: the async function of branch b throws.
CompleteRejects(b) ==
    /\ branches[b].st = "calling"
    /\ branches' = [branches EXCEPT ![b].st = "rejected"]
    /\ generated' = IF generated = "pending" THEN promiseAll(branches') ELSE generated
    /\ UNCHANGED <<numberOfCompletionsToGenerate, clock, merged, mergedDone>>
    /\ UNCHANGED <<promptVars, bfgVars>>

\* The consumer advances the merged stream (utils.zipGenerators): every branch
\* whose sequence has not ended is asked for its next result; the first request
\* starts the branch's timeout (utils.generatorWithTimeout).
PullMerged ==
    /\ generated = "returned"
    /\ ~mergedDone
    /\ \A b \in Branches : branches[b].st \in {"ready", "exhausted"}
    /\ branches' = [b \in Branches |->
            IF branches[b].st = "ready"
            THEN [branches[b] EXCEPT !.st = "pulled",
                                     !.timer = IF @ = -1 THEN clock ELSE @]
            ELSE branches[b]]
    /\ UNCHANGED <<numberOfCompletionsToGenerate, clock, generated, merged, mergedDone>>
    /\ UNCHANGED <<promptVars, bfgVars>>

InTime(b) == clock - branches[b].timer < TimeoutMs

\* The backend stream of branch b yields a partial result in time.
BranchYields(b) ==
    /\ branches[b].st = "pulled"
    /\ InTime(b)
    /\ branches[b].yielded < MaxItems
    /\ branches' = [branches EXCEPT ![b].st = "settled", ![b].val = "item",
                                    ![b].yielded = @ + 1]
    /\ UNCHANGED <<numberOfCompletionsToGenerate, clock, generated, merged, mergedDone>>
    /\ UNCHANGED <<promptVars, bfgVars>>

\* The backend stream of branch b ends normally.
BranchEnds(b) ==
    /\ branches[b].st = "pulled"
    /\ InTime(b)
    /\ branches' = [branches EXCEPT ![b].st = "settled", ![b].val = "none", ![b].more = FALSE]
    /\ UNCHANGED <<numberOfCompletionsToGenerate, clock, generated, merged, mergedDone>>
    /\ UNCHANGED <<promptVars, bfgVars>>

\* The backend reports a failure mid-stream: a terminal item of that branch's
\* sequence.
BranchErrors(b) ==
    /\ branches[b].st = "pulled"
    /\ InTime(b)
    /\ branches' = [branches EXCEPT ![b].st = "settled", ![b].val = "error", ![b].more = FALSE]
    /\ UNCHANGED <<numberOfCompletionsToGenerate, clock, generated, merged, mergedDone>>
    /\ UNCHANGED <<promptVars, bfgVars>>

\* The timeout of branch b expires: its sequence ends early.
BranchTimesOut(b) ==
    /\ branches[b].st = "pulled"
    /\ ~InTime(b)
    /\ branches' = [branches EXCEPT ![b].st = "settled", ![b].val = "none", ![b].more = FALSE]
    /\ UNCHANGED <<numberOfCompletionsToGenerate, clock, generated, merged, mergedDone>>
    /\ UNCHANGED <<promptVars, bfgVars>>

\* Every branch asked in this round has answered: the merge emits the combined
\* results, or terminates when every sequence is exhausted.
RoundCompletes ==
    /\ generated = "returned"
    /\ \E b \in Branches : branches[b].st = "settled"
    /\ \A b \in Branches : branches[b].st \in {"settled", "exhausted"}
    /\ LET round == [b \in Branches |->
                        IF branches[b].st = "settled" THEN branches[b].val ELSE "none"]
           over == \A b \in Branches : round[b] = "none"
       IN /\ mergedDone' = over
          /\ merged' = IF over THEN merged ELSE Append(merged, round)
    /\ branches' = [b \in Branches |->
            IF branches[b].st = "settled"
            THEN [branches[b] EXCEPT !.st = IF branches[b].more THEN "ready" ELSE "exhausted",
                                     !.val = "none"]
            ELSE branches[b]]
    /\ UNCHANGED <<numberOfCompletionsToGenerate, clock, generated>>
    /\ UNCHANGED <<promptVars, bfgVars>>

NextGen ==
    \/ Tick
    \/ \E b \in Branches : CompleteResolves(b)
    \/ \E b \in Branches : CompleteRejects(b)
    \/ PullMerged
    \/ \E b \in Branches : BranchYields(b)
    \/ \E b \in Branches : BranchEnds(b)
    \/ \E b \in Branches : BranchErrors(b)
    \/ \E b \in Branches : BranchTimesOut(b)
    \/ RoundCompletes

SpecGen == InitGen /\ [][NextGen]_vars

-----------------------------------------------------------------------------
(* Specification of BfgRetriever *)

LastCandidates ==
    { NoCandidate,
      [defined |-> TRUE, currentLinePrefix |-> "", items |-> <<>>],
      [defined |-> TRUE, currentLinePrefix |-> "x = ", items |-> <<"foo(bar">>] }

\* retrieve's document argument with the text before the cursor: one document
\* of a language isSupportedForLanguageId accepts, one of a language it does
\* not.
Documents ==
    { [uri |-> "/doc.ts", languageId |-> "typescript", prefix |-> "bar(baz"],
      [uri |-> "/doc.txt", languageId |-> "plaintext", prefix |-> "bar(baz"] }

\* The retriever as its constructor leaves it (lines 208-224): the settings
\* are read, spawnBfg has been called and indexWorkspace has been started
\* (its first turn, which runs inside the constructor, is the task's first
\* step here: nothing can come between the two).
Constructed ==
    /\ PromptIdle
    /\ GenIdle
    /\ loading = "spawnBfg"
    /\ loadedBFG = "pending"
    /\ spawnCalls = 1
    /\ startupFailed = FALSE
    /\ didFailLoading = FALSE
    /\ alive = FALSE
    /\ indexedRepositoryRevisions = [u \in Uris |-> Undefined]
    /\ subscribed = FALSE
    /\ bfgIndexingPromise = NewTask("indexWorkspace", "indexGitRepositories", <<>>)
    /\ handlers = EmptyBag
    /\ lastObserved = [u \in Uris |-> Never]
    /\ resent = FALSE
    /\ indexingErrors = {}
    /\ keptAfterError = {}
    /\ retrievals = EmptyBag
    /\ requests = EmptyBag
    /\ shutdowns = 0
    /\ calls = [events |-> 0, retrieves |-> 0, disposes |-> 0]

\* Starting the engine.
LoadActions ==
    \/ SpawnBfgSucceeds
    \/ SpawnBfgFails
    \/ InitializeSucceeds
    \/ InitializeFails
    \/ LoadFailedHandler

\* indexWorkspace without parent-repository inference, and indexEntry.
IndexWorkspaceActions ==
    \/ \E t \in IndexingTasks : GitApiMissing(t)
    \/ \E t \in IndexingTasks : GitRepositoryObserved(t)
    \/ \E t \in IndexingTasks : GitRepositoriesDone(t)
    \/ \E t \in IndexingTasks : RemainingFolder(t)
    \/ \E t \in IndexingTasks : RemainingDone(t)
    \/ \E t \in IndexingTasks : IndexEntryLoaded(t)
    \/ \E t \in IndexingTasks : IndexEntryLoadRejected(t)
    \/ \E t \in IndexingTasks, ok \in BOOLEAN : IndexEntryResponded(t, ok)

\* indexInferredGitRepositories and the two event handlers.
InferAndEventActions ==
    \/ \E t \in IndexingTasks : InferFolderSkipped(t)
    \/ \E t \in IndexingTasks : InferFolderStarts(t)
    \/ \E t \in IndexingTasks, repo \in InferResults("/repo/sub") \cup InferResults("/w") :
            InferGitRepositoryReturns(t, repo)
    \/ \E t \in IndexingTasks : InferFoldersDone(t)
    \/ \E repository \in GitRepositories : OnDidOpenRepository(repository)
    \/ \E folders \in FolderLists : OnDidChangeWorkspaceFolders(folders)

\* retrieve and dispose.
RetrieveActions ==
    \/ Retrieve
    \/ \E t \in BagToSet(retrievals), c \in LastCandidates, d \in Documents :
            RetrieveLoaded(t, c, d)
    \/ \E t \in BagToSet(retrievals) : RetrieveLoadRejected(t)
    \/ \E t \in BagToSet(retrievals), c \in LastCandidates, d \in Documents :
            RetrieveIndexed(t, c, d)
    \/ \E t \in BagToSet(retrievals), response \in Responses : RetrieveResponded(t, response)
    \/ Dispose
    \/ DisposeLoaded
    \/ DisposeLoadRejected

\* The indexing side of a session: startup, the initial indexing task, and the
\* repository and workspace-folder events. retrieve and dispose write nothing
\* that indexing reads and are left out, and so is the exit of the running
\* process, which indexing does not look at.
InitIndex ==
    /\ Constructed
    /\ awaitIndexing = FALSE
    /\ vscodeGitAPI \in BOOLEAN
    /\ inferParent \in BOOLEAN
    /\ repositories \in RepositoryLists
    /\ ~vscodeGitAPI => repositories = <<>>
    /\ workspaceFolders \in FolderLists

NextIndex == LoadActions \/ IndexWorkspaceActions \/ InferAndEventActions

SpecIndex == InitIndex /\ [][NextIndex]_vars

\* The revisions of the repositories the git extension reports: startup, the
\* initial indexing task and onDidOpenRepository events, with parent-repository
\* inference switched off and the workspace folders fixed.
InitRevisions ==
    /\ Constructed
    /\ awaitIndexing = FALSE
    /\ vscodeGitAPI \in BOOLEAN
    /\ inferParent = FALSE
    /\ repositories \in RepositoryLists
    /\ ~vscodeGitAPI => repositories = <<>>
    /\ workspaceFolders \in {<<>>, <<"/w">>}

NextRevisions ==
    \/ LoadActions
    \/ IndexWorkspaceActions
    \/ \E repository \in GitRepositories : OnDidOpenRepository(repository)

SpecRevisions == InitRevisions /\ [][NextRevisions]_vars

\* The retrieval side of a session: startup, the initial indexing task, and
\* concurrent retrieve and dispose calls, in a workspace that does not change.
InitBfg ==
    /\ Constructed
    /\ awaitIndexing \in BOOLEAN
    /\ vscodeGitAPI \in BOOLEAN
    /\ inferParent = FALSE
    /\ repositories \in {<<>>, <<[rootUri |-> "/repo", commit |-> "c1"]>>}
    /\ ~vscodeGitAPI => repositories = <<>>
    /\ workspaceFolders \in {<<>>, <<"/repo/sub", "/w">>}

NextBfg == LoadActions \/ ProcessExits \/ IndexWorkspaceActions \/ RetrieveActions

SpecBfg == InitBfg /\ [][NextBfg]_vars

-----------------------------------------------------------------------------
(* Claims about createPrompt *)

RECURSIVE SumLen(_)
SumLen(blocks) == IF blocks = <<>> THEN 0 ELSE Len(Head(blocks)) + SumLen(Tail(blocks))

\* C1: budget invariant of createPrompt: the lengths of the packed snippet
\* blocks plus the fixed (no-snippet) prompt length, as emptyPromptLength
\* reports it, never exceed promptChars.
C1_BudgetInvariant ==
    prompt # NoPrompt =>
        SumLen(prompt.blocks) + emptyPromptLength(options) <= promptChars

\* Ranked snippet i misses: its block is empty or fails the budget test.
Misses(i) ==
    LET block == contextPrompt(snippets[i])
    IN Len(block) = 0 \/ Len(block) + 1 > promptChars - emptyPromptLength(options)

\* C15: stop on first miss: the packed blocks are the blocks of a prefix of
\* the ranked list, and no snippet at or after the first one that misses is
\* packed.
C15_StopOnFirstMiss ==
    prompt # NoPrompt =>
        LET k == Len(prompt.blocks)
        IN /\ k <= Len(snippets)
           /\ \A i \in 1..k : prompt.blocks[i] = contextPrompt(snippets[i])
           /\ \A i \in 1..Len(snippets) : Misses(i) => k < i

\* A snippet misses and a later one would pass the tests alone.
C15_Witness ==
    /\ prompt # NoPrompt
    /\ \E i, j \in 1..Len(snippets) :
            i < j /\ Misses(i) /\ ~Misses(j) /\ Len(prompt.blocks) < i

-----------------------------------------------------------------------------
(* Claims about BfgRetriever *)

Retrievals == BagToSet(retrievals)

HasDuplicates(s) == \E i, j \in DOMAIN s : i # j /\ s[i] = s[j]

\* C2: revision idempotence: re-observing a (repositoryURI, commit) pair equal
\* to the last pair observed for that URI never sends another
\* gitRevision/didChange request, also when the commit is absent.
C2_RevisionIdempotence == ~resent

\* C3: identifier dedup: the identifiers sent in contextForIdentifiers never
\* hold the same symbol name twice.
C3_IdentifierDedup ==
    \A r \in Sent("bfg/contextForIdentifiers") : ~HasDuplicates(r.identifiers)

\* C4: sticky failure: once spawnBfg or the initialize handshake has failed,
\* no retrieve call gets past its wait for the engine, every retrieve call
\* that has returned has returned the empty sequence, and no
\* contextForIdentifiers request has been sent.
C4_StickyFailure ==
    startupFailed =>
        /\ Sent("bfg/contextForIdentifiers") = {}
        /\ \A t \in Retrievals :
              /\ t.pc \in {"loading", "done"}
              /\ t.pc = "done" => ~t.threw /\ t.result = <<>>

C4_Witness ==
    /\ startupFailed
    /\ BagCardinality(retrievals) = MaxRetrieves
    /\ \A t \in Retrievals : t.pc = "done"

\* C5: indexing never surfaces a failure: no run of indexWorkspace or of an
\* event handler ends with an error reaching its caller.
C5_IndexingNeverFails == \A t \in IndexingTasks : t.pc # "failed"

\* C6: retrieve never throws: every retrieve call that has ended has returned
\* a sequence, the empty one when the request failed or the answer was no
\* object or null.
C6_RetrieveNeverThrows ==
    \A t \in Retrievals :
        /\ ~t.threw
        /\ (t.pc = "done" /\ t.response \in {"error", "string", "null"}) => t.result = <<>>

C6_Witness ==
    /\ \E t \in Retrievals : t.pc = "done" /\ t.response = "null"
    /\ \E t \in Retrievals : t.pc = "done" /\ t.response = "object" /\ t.result # <<>>

\* C7: single startup: spawnBfg is called at most once and bfg/initialize is
\* sent at most once in a session.
C7_SingleStartup ==
    /\ spawnCalls <= 1
    /\ NumSent("bfg/initialize") <= 1

\* Retrieve calls, the initial indexing task and a dispose call all wait for
\* the one startup in flight.
C7_Witness ==
    /\ loadedBFG = "pending"
    /\ loading = "initialize"
    /\ \E t \in Retrievals : t.pc = "loading" /\ CopiesIn(t, retrievals) >= 2
    /\ bfgIndexingPromise.pc = "loading"
    /\ shutdowns > 0

\* C8: handshake first: whenever a request other than bfg/initialize has been
\* sent, bfg/initialize was sent and acknowledged before.
C8_HandshakeFirst ==
    (\E r \in BagToSet(requests) : r.method # "bfg/initialize") =>
        /\ loading = "returned"
        /\ NumSent("bfg/initialize") >= 1

C8_Witness ==
    \A m \in {"bfg/gitRevision/didChange", "bfg/workspace/didChange",
               "bfg/contextForIdentifiers", "bfg/shutdown"} : Sent(m) # {}

\* C11: shutdown: a bfg/shutdown request is only ever sent after the startup
\* has succeeded; once it has succeeded every dispose call has sent one or is
\* about to (also a call made while the startup was in flight); after a failed
\* startup none is sent.
C11_Shutdown ==
    /\ Sent("bfg/shutdown") # {} => loadedBFG = "resolved" /\ ~startupFailed
    /\ NumSent("bfg/shutdown") + shutdowns <= calls.disposes
    /\ loadedBFG = "resolved" => NumSent("bfg/shutdown") + shutdowns = calls.disposes
    /\ startupFailed => NumSent("bfg/shutdown") = 0

C11_Witness ==
    /\ loadedBFG = "resolved"
    /\ calls.disposes = MaxDisposes
    /\ NumSent("bfg/shutdown") = calls.disposes

\* Some key of the revision map is a string prefix of the folder's URI.
HasPrefixKey(folder) ==
    \E key \in Uris :
        indexedRepositoryRevisions[key] # Undefined /\ startsWith(folder, key)

WorkspaceRequest(folder) == Request("bfg/workspace/didChange", folder, <<>>)

\* C12: containment: no workspace/didChange request is sent for a workspace
\* folder that has a key of the revision map as a string prefix, and when the
\* initial indexing has finished every workspace folder without such a key
\* has got its request.
C12_Containment ==
    /\ \A r \in Sent("bfg/workspace/didChange") : ~HasPrefixKey(r.uri)
    /\ bfgIndexingPromise.pc = "done" =>
            \A k \in DOMAIN workspaceFolders :
                ~HasPrefixKey(workspaceFolders[k]) =>
                    WorkspaceRequest(workspaceFolders[k]) \in Sent("bfg/workspace/didChange")

\* Folder /repo/sub lies in the indexed repository /repo, folder /w does not.
C12_Witness ==
    /\ bfgIndexingPromise.pc = "done"
    /\ indexedRepositoryRevisions["/repo"] = "c1"
    /\ workspaceFolders = <<"/repo/sub", "/w">>
    /\ Sent("bfg/workspace/didChange") = {WorkspaceRequest("/w")}

\* The symbol names the extractor finds in the document's text before the
\* cursor.
DocumentNames(document) ==
    symbolNames(getLastNGraphContextIdentifiers(10, "document", document.prefix))

\* C13: no prior candidate: every step in which retrieve, called without a
\* last candidate, sends its request sends exactly the identifiers of the
\* document prefix.
C13_NoPriorCandidate ==
    [][\A t \in Retrievals, d \in Documents :
          ( /\ RetrieveLoaded(t, NoCandidate, d) \/ RetrieveIndexed(t, NoCandidate, d)
            /\ requests' # requests )
          => requests' = requests (+) SetToBag({
                 Request("bfg/contextForIdentifiers", d.uri, DocumentNames(d))})]_vars

\* The language of the document a contextForIdentifiers request names.
LanguageIdOf(uri) == (CHOOSE d \in Documents : d.uri = uri).languageId

\* C14: unsupported language: no contextForIdentifiers request is sent for a
\* document whose languageId isSupportedForLanguageId rejects.
C14_UnsupportedLanguage ==
    \A r \in Sent("bfg/contextForIdentifiers") :
        isSupportedForLanguageId(LanguageIdOf(r.uri))

\* C16: liveness probe before query: every step that sends a
\* contextForIdentifiers request is taken while the process is alive.
C16_LivenessProbe ==
    [][(\E r \in BagToSet(requests') :
            /\ r.method = "bfg/contextForIdentifiers"
            /\ CopiesIn(r, requests') > CopiesIn(r, requests))
        => alive]_vars

\* C17: await-indexing ordering: under the await-indexing policy a
\* contextForIdentifiers request has only been sent when the initial indexing
\* task has finished.
C17_AwaitIndexing ==
    (awaitIndexing /\ Sent("bfg/contextForIdentifiers") # {})
        => bfgIndexingPromise.pc = "done"

\* The policy is on, the initial indexing had a repository and a folder to
\* report, and a query has been sent.
C17_Witness ==
    /\ awaitIndexing
    /\ Sent("bfg/gitRevision/didChange") # {}
    /\ Sent("bfg/workspace/didChange") # {}
    /\ Sent("bfg/contextForIdentifiers") # {}

\* Without the policy a query is sent while the initial indexing is still
\* outstanding.
C17_QueryWhileIndexing ==
    /\ ~awaitIndexing
    /\ Sent("bfg/contextForIdentifiers") # {}
    /\ bfgIndexingPromise.pc \notin {"done", "failed"}

\* The indexEntry calls for a repository that are in progress or have thrown.
RepositoryCalls ==
    { t \in IndexingTasks :
        t.entry.type = "repository" /\ t.pc \in {"loading", "requesting", "failed"} }

GitRevisionRequest(uri) == Request("bfg/gitRevision/didChange", uri, <<>>)

\* C18: optimistic map update: the map has the repository's revision from
\* before the gitRevision/didChange request is issued; a failed request leaves
\* the entry in place; observing again the commit observed last starts no
\* further indexEntry call.
C18_OptimisticUpdate ==
    /\ \A t \in RepositoryCalls : indexedRepositoryRevisions[t.entry.uri] # Undefined
    /\ \A u \in indexingErrors : indexedRepositoryRevisions[u] # Undefined
    /\ \A t \in RepositoryCalls : t.entry.reobserved => t.entry.commit = Undefined

\* The only request for /repo has failed, and an observation of the same
\* commit after that found the revision unchanged and sent nothing.
C18_Witness ==
    /\ "/repo" \in indexingErrors
    /\ "/repo" \in keptAfterError
    /\ indexedRepositoryRevisions["/repo"] \in Commits
    /\ CopiesIn(GitRevisionRequest("/repo"), requests) = 1
    /\ RepositoryCalls = {}

\* The indexEntry call an onDidOpenRepository handler makes for a repository.
OpenRepositoryCall(repository) ==
    IndexEntry(NewTask("onDidOpenRepository", "done", <<>>),
               [type |-> "repository", uri |-> repository.rootUri,
                commit |-> repository.commit, reobserved |-> FALSE])

\* C19: last write wins: the map entry of a repository always is the commit
\* observed last for it (no entry or the empty revision when that observation
\* had no commit), whatever requests are outstanding; and every
\* observation of a commit other than the one observed before starts its own
\* indexEntry call at once, next to the calls still in progress.
C19_LastWriteWins ==
    /\ [](\A u \in Uris :
            /\ lastObserved[u] \in Commits =>
                    indexedRepositoryRevisions[u] = lastObserved[u]
            /\ lastObserved[u] = Undefined =>
                    indexedRepositoryRevisions[u] \in {Undefined, ""})
    /\ [][\A r \in GitRepositories :
            (r.commit \in Commits /\ lastObserved[r.rootUri] # r.commit) =>
                /\ OnDidOpenRepository(r) =>
                        handlers' = handlers (+) SetToBag({OpenRepositoryCall(r)})
                /\ ( /\ GitRepositoryObserved(bfgIndexingPromise)
                     /\ repositories[bfgIndexingPromise.i] = r )
                    => /\ bfgIndexingPromise'.pc = "loading"
                       /\ bfgIndexingPromise'.entry.uri = r.rootUri
                       /\ bfgIndexingPromise'.entry.commit = r.commit]_vars

\* Two requests for /repo overlap: the one for c2 is still outstanding when c1
\* has been observed after it and has its own request outstanding.
C19_Witness ==
    /\ lastObserved["/repo"] = "c1"
    /\ indexedRepositoryRevisions["/repo"] = "c1"
    /\ \E t1, t2 \in RepositoryCalls :
            /\ t1.pc = "requesting" /\ t1.entry.uri = "/repo" /\ t1.entry.commit = "c1"
            /\ t2.pc = "requesting" /\ t2.entry.uri = "/repo" /\ t2.entry.commit = "c2"
    /\ CopiesIn(GitRevisionRequest("/repo"), requests) >= 2

\* The engine is up and no indexing task or event handler is still running.
IndexingQuiescent ==
    /\ loadedBFG = "resolved"
    /\ bfgIndexingPromise.pc = "done"
    /\ handlers = EmptyBag

\* C20: one-shot workspace notification: once the engine is up and all
\* indexing has come to rest, every workspace folder that no key of the map
\* covers has got a workspace/didChange request, and no folder has got more
\* than one.
C20_OneShotWorkspace ==
    /\ IndexingQuiescent =>
            \A k \in DOMAIN workspaceFolders :
                ~HasPrefixKey(workspaceFolders[k]) =>
                    CopiesIn(WorkspaceRequest(workspaceFolders[k]), requests) = 1
    /\ \A u \in Uris : CopiesIn(WorkspaceRequest(u), requests) <= 1

-----------------------------------------------------------------------------
(* Claims about generateCompletions *)

\* C9: error isolation between generation branches: when one branch fails,
\* including by a failure of its client.complete call, generateCompletions
\* itself does not fail.
C9_ErrorIsolation ==
    (\E b \in Branches : branches[b].st = "rejected" \/ branches[b].val = "error")
        => generated # "threw"

\* C10: timeout isolation between generation branches: a branch whose backend
\* call takes longer than timeoutMs contributes no partial output, and the
\* caller is not kept waiting for that call beyond its timeout.
C10_TimeoutIsolation ==
    \A b \in Branches :
        (branches[b].st = "calling" /\ clock > TimeoutMs) =>
            /\ generated # "pending"
            /\ branches[b].yielded = 0

====
